---- MODULE Spec2Model ----
(***************************************************************************)
(* A model of thpool.c: a fixed-size pool of worker threads fed through a  *)
(* doubly linked job queue guarded by three POSIX semaphores, with a       *)
(* process-wide keep-alive flag.                                           *)
(*                                                                         *)
(* Every thread (pool owner, submitter, worker) advances one statement of  *)
(* thpool.c at a time; the job-queue helpers, which the code only calls    *)
(* between sem_wait(mutex) and sem_post(mutex), are one step each.         *)
(*                                                                         *)
(* Environment assumptions: pthread_create succeeds; the callers keep the  *)
(* interface contract that no thpool_add_work call races with or follows   *)
(* thpool_destroy of the same pool.                                        *)
(***************************************************************************)
EXTENDS Integers, Sequences, FiniteSets, TLC

\* ------------------------------------------------------------------ bounds
MaxPools == 2
MaxThreads == 2
MaxJobs == 2
NumSubmitters == 2
MaxArg == 2
PoolsJobs == 1

NULL == 0

Pools == 1..MaxPools
Threads == 1..MaxThreads
Jobs == 1..MaxJobs
Submitters == 1..NumSubmitters
Args == 1..MaxArg
ThreadArgs == (0 - 1)..MaxThreads

SemNames == {"mutex", "nEmpty", "nStored"}
MemNames == {"pool", "threads", "jobqueue"}

VARIABLES
    thpool_keepalive, \* static int thpool_keepalive
    proc,             \* "running" | "exited" (exit(1)) | "crashed" (fault)
    ppc,              \* per pool: position of the thread that owns the pool
    dt,               \* per pool: loop variable t of thpool_destroy
    reqN,             \* per pool: the argument given to thpool_init
    threadsN,         \* per pool: tp_p->threadsN
    sem,              \* per pool: value of mutex, nEmpty, nStored
    semLive,          \* per pool: sem_init done and sem_destroy not yet
    mem,              \* per pool: state of the three malloc'd blocks
    jobqueue,         \* per pool: [head, tail, jobsN]
    next,             \* per job: job->next
    prev,             \* per job: job->prev
    jarg,             \* per job: job->arg (job->function is the job's own id)
    jmem,             \* per job: "none" | "live" | "freed" | "dfreed"
    wpc,              \* per pool and thread: position in thpool_thread_do
    wjob,             \* per pool and thread: job_p (func_buff with it)
    warg,             \* per pool and thread: arg_buff
    spc,              \* per submitter: position in thpool_add_work
    spool,            \* per submitter: tp_p of the call
    sjob,             \* per submitter: newJob
    nextJob,          \* the next address malloc hands out for a job
    runs,             \* history, per job: times its function was invoked
    runArg,           \* history, per job: argument of the last invocation
    begun,            \* history, per job: jobs whose add_work had returned
                      \*   when this job's add_work call began
    returned,         \* history: jobs whose add_work call has returned
    deqOrder,         \* history: jobs in the order they were dequeued
    quiet,            \* history, per pool: no thpool_destroy call has begun
                      \*   since the pool's thpool_init
    jpool             \* history, per job: the pool it was submitted to

vars == <<thpool_keepalive, proc, ppc, dt, reqN, threadsN, sem, semLive, mem,
          jobqueue, next, prev, jarg, jmem, wpc, wjob, warg, spc, spool, sjob,
          nextJob, runs, runArg, begun, returned, deqOrder, quiet, jpool>>

poolVars == <<ppc, dt, reqN, threadsN, mem>>
semVars == <<sem, semLive>>
queueVars == <<jobqueue, next, prev>>
jobVars == <<jarg, jmem, nextJob>>
workerVars == <<wpc, wjob, warg>>
submitVars == <<spc, spool, sjob>>
histVars == <<runs, runArg, begun, returned, deqOrder, quiet, jpool>>

\* ------------------------------------------------------- pure helpers

\* if (!threadsN || threadsN<1) threadsN=1;
Clamp(n) == IF n = 0 \/ n < 1 THEN 1 ELSE n

EmptyQueue == [head |-> NULL, tail |-> NULL, jobsN |-> 0]

\* thpool_jobqueue_add: the new job becomes the head. The result is the
\* queue together with the next and prev fields of all jobs.
jobqueue_add(q, nx, pv, j) ==
    LET nx0 == [nx EXCEPT ![j] = NULL]
        pv0 == [pv EXCEPT ![j] = NULL]
        oldFirstJob == q.head
    IN  IF q.jobsN = 0
        THEN [q  |-> [head |-> j, tail |-> j, jobsN |-> q.jobsN + 1],
              nx |-> nx0, pv |-> pv0, fault |-> FALSE]
        ELSE IF oldFirstJob = NULL
        THEN [q |-> q, nx |-> nx0, pv |-> pv0, fault |-> TRUE]
        ELSE [q  |-> [head |-> j, tail |-> q.tail, jobsN |-> q.jobsN + 1],
              nx |-> [nx0 EXCEPT ![j] = oldFirstJob],
              pv |-> [pv0 EXCEPT ![oldFirstJob] = j], fault |-> FALSE]

\* thpool_jobqueue_peek: the tail is the oldest job.
jobqueue_peek(q) == q.tail

\* A removal at the wrong end: the newest job (the head) leaves the queue.
jobqueue_removefirst(q, nx, pv) ==
    LET oldFirstJob == q.head
    IN  IF q.jobsN = 0
        THEN [q |-> q, nx |-> nx, rc |-> 0 - 1, out |-> NULL, fault |-> FALSE]
        ELSE IF q.jobsN = 1
        THEN [q |-> [head |-> NULL, tail |-> NULL, jobsN |-> q.jobsN - 1],
              nx |-> nx, rc |-> 0, out |-> oldFirstJob, fault |-> FALSE]
        ELSE [q |-> [head |-> nx[oldFirstJob], tail |-> q.tail,
                     jobsN |-> q.jobsN - 1],
              nx |-> nx, rc |-> 0, out |-> oldFirstJob, fault |-> FALSE]

\* A removal that moves the tail but leaves the new tail's next pointing at
\* the removed job.
jobqueue_removelast_nounlink(q, nx, pv) ==
    LET oldLastJob == q.tail
    IN  IF q.jobsN = 0
        THEN [q |-> q, nx |-> nx, rc |-> 0 - 1, out |-> NULL, fault |-> FALSE]
        ELSE IF q.jobsN = 1
        THEN [q |-> [head |-> NULL, tail |-> NULL, jobsN |-> q.jobsN - 1],
              nx |-> nx, rc |-> 0, out |-> oldLastJob, fault |-> FALSE]
        ELSE [q |-> [head |-> q.head, tail |-> pv[oldLastJob],
                     jobsN |-> q.jobsN - 1],
              nx |-> nx, rc |-> 0, out |-> oldLastJob, fault |-> FALSE]

\* thpool_jobqueue_removelast: unlink the tail; rc is the return value and
\* out the job that left the queue.
jobqueue_removelast(q, nx, pv) ==
    LET oldLastJob == q.tail
    IN  IF q.jobsN = 0
        THEN [q |-> q, nx |-> nx, rc |-> 0 - 1, out |-> NULL, fault |-> FALSE]
        ELSE IF q.jobsN = 1
        THEN [q |-> [head |-> NULL, tail |-> NULL, jobsN |-> q.jobsN - 1],
              nx |-> nx, rc |-> 0, out |-> oldLastJob, fault |-> FALSE]
        ELSE IF oldLastJob = NULL \/ pv[oldLastJob] = NULL
        THEN [q |-> q, nx |-> nx, rc |-> 0, out |-> NULL, fault |-> TRUE]
        ELSE [q |-> [head |-> q.head, tail |-> pv[oldLastJob],
                     jobsN |-> q.jobsN - 1],
              nx |-> [nx EXCEPT ![pv[oldLastJob]] = NULL],
              rc |-> 0, out |-> oldLastJob, fault |-> FALSE]

\* The jobs thpool_jobqueue_empty frees, in order: it walks from the tail
\* along prev, jobsN times. NULL in the sequence marks a NULL dereference.
RECURSIVE DrainWalk(_, _, _)
DrainWalk(curjob, n, pv) ==
    IF n = 0 THEN <<>>
    ELSE IF curjob = NULL THEN <<NULL>>
    ELSE <<curjob>> \o DrainWalk(pv[curjob], n - 1, pv)

\* free(p) seen from the allocator: a second free of a block is recorded.
FreeBlock(st) == IF st = "live" THEN "freed" ELSE "dfreed"

RECURSIVE FreeAll(_, _)
FreeAll(jm, s) ==
    IF s = <<>> THEN jm
    ELSE FreeAll([jm EXCEPT ![Head(s)] = FreeBlock(jm[Head(s)])], Tail(s))

\* A drain that frees the jobs but leaves head pointing at the freed chain.
jobqueue_empty_nofix(q, pv, jm) ==
    LET walk == DrainWalk(q.tail, q.jobsN, pv)
    IN  IF \E i \in 1..Len(walk) : walk[i] = NULL
        THEN [q |-> q, jm |-> jm, fault |-> TRUE]
        ELSE [q |-> [head |-> q.head, tail |-> NULL, jobsN |-> 0],
              jm |-> FreeAll(jm, walk), fault |-> FALSE]

\* thpool_jobqueue_empty: free the jobsN jobs met from the tail along prev,
\* then set tail and head to NULL. jm is the allocation state of the jobs;
\* fault marks the dereference of a NULL curjob.
jobqueue_empty(q, pv, jm) ==
    LET walk == DrainWalk(q.tail, q.jobsN, pv)
    IN  IF \E i \in 1..Len(walk) : walk[i] = NULL
        THEN [q |-> q, jm |-> jm, fault |-> TRUE]
        ELSE [q |-> EmptyQueue, jm |-> FreeAll(jm, walk), fault |-> FALSE]

\* ---------------------------------------------------------------- Init

Init ==
    /\ thpool_keepalive = 1
    /\ proc = "running"
    /\ ppc = [p \in Pools |-> "none"]
    /\ dt = [p \in Pools |-> 0]
    /\ reqN = [p \in Pools |-> 0]
    /\ threadsN = [p \in Pools |-> 0]
    /\ sem = [p \in Pools |-> [s \in SemNames |-> 0]]
    /\ semLive = [p \in Pools |-> [s \in SemNames |-> FALSE]]
    /\ mem = [p \in Pools |-> [m \in MemNames |-> "none"]]
    /\ jobqueue = [p \in Pools |-> EmptyQueue]
    /\ next = [j \in Jobs |-> NULL]
    /\ prev = [j \in Jobs |-> NULL]
    /\ jarg = [j \in Jobs |-> 0]
    /\ jmem = [j \in Jobs |-> "none"]
    /\ wpc = [p \in Pools |-> [t \in Threads |-> "none"]]
    /\ wjob = [p \in Pools |-> [t \in Threads |-> NULL]]
    /\ warg = [p \in Pools |-> [t \in Threads |-> 0]]
    /\ spc = [s \in Submitters |-> "idle"]
    /\ spool = [s \in Submitters |-> 0]
    /\ sjob = [s \in Submitters |-> NULL]
    /\ nextJob = 1
    /\ runs = [j \in Jobs |-> 0]
    /\ runArg = [j \in Jobs |-> 0]
    /\ begun = [j \in Jobs |-> {}]
    /\ returned = {}
    /\ deqOrder = <<>>
    /\ quiet = [p \in Pools |-> FALSE]
    /\ jpool = [j \in Jobs |-> 0]

\* ---------------------------------------------------------- thpool_init

\* An initialisation that gives the queue one slot too many.
thpool_init_oversized(p, n) ==
    /\ proc = "running"
    /\ ppc[p] = "none"
    /\ ppc' = [ppc EXCEPT ![p] = "live"]
    /\ reqN' = [reqN EXCEPT ![p] = n]
    /\ threadsN' = [threadsN EXCEPT ![p] = Clamp(n)]
    /\ mem' = [mem EXCEPT ![p] = [m \in MemNames |-> "live"]]
    /\ jobqueue' = [jobqueue EXCEPT ![p] = EmptyQueue]
    /\ sem' = [sem EXCEPT ![p] =
                 [mutex |-> 1, nEmpty |-> Clamp(n) + 1, nStored |-> 0]]
    /\ semLive' = [semLive EXCEPT ![p] = [s \in SemNames |-> TRUE]]
    /\ wpc' = [wpc EXCEPT ![p] =
                 [t \in Threads |-> IF t <= Clamp(n) THEN "w_loop" ELSE "none"]]
    /\ quiet' = [quiet EXCEPT ![p] = TRUE]
    /\ UNCHANGED <<thpool_keepalive, proc, dt, next, prev, jobVars, wjob, warg,
                   submitVars, runs, runArg, begun, returned, deqOrder, jpool>>

\* thpool_init with all three allocations succeeding: the semaphores are
\* initialised and threadsN workers are started at the top of their loop.
thpool_init(p, n) ==
    /\ proc = "running"
    /\ ppc[p] = "none"
    /\ ppc' = [ppc EXCEPT ![p] = "live"]
    /\ reqN' = [reqN EXCEPT ![p] = n]
    /\ threadsN' = [threadsN EXCEPT ![p] = Clamp(n)]
    /\ mem' = [mem EXCEPT ![p] = [m \in MemNames |-> "live"]]
    /\ jobqueue' = [jobqueue EXCEPT ![p] = EmptyQueue]
    /\ sem' = [sem EXCEPT ![p] = [mutex |-> 1, nEmpty |-> Clamp(n), nStored |-> 0]]
    /\ semLive' = [semLive EXCEPT ![p] = [s \in SemNames |-> TRUE]]
    /\ wpc' = [wpc EXCEPT ![p] =
                 [t \in Threads |-> IF t <= Clamp(n) THEN "w_loop" ELSE "none"]]
    /\ quiet' = [quiet EXCEPT ![p] = TRUE]
    /\ UNCHANGED <<thpool_keepalive, proc, dt, next, prev, jobVars, wjob, warg,
                   submitVars, runs, runArg, begun, returned, deqOrder, jpool>>

\* A failing initialisation that returns NULL without freeing the thread ids.
thpool_init_nomem_leak(p, n, k) ==
    /\ proc = "running"
    /\ ppc[p] = "none"
    /\ ppc' = [ppc EXCEPT ![p] = "failed"]
    /\ reqN' = [reqN EXCEPT ![p] = n]
    /\ mem' = [mem EXCEPT ![p] =
                 [pool     |-> IF k > 1 THEN "freed" ELSE "none",
                  threads  |-> IF k > 2 THEN "live" ELSE "none",
                  jobqueue |-> "none"]]
    /\ UNCHANGED <<thpool_keepalive, proc, dt, threadsN, semVars, queueVars, jobVars,
                   workerVars, submitVars, histVars>>

\* thpool_init with the k-th allocation failing (1: the pool, 2: the thread
\* ids, 3: the job queue): the earlier blocks are freed and NULL is returned.
thpool_init_nomem(p, n, k) ==
    /\ proc = "running"
    /\ ppc[p] = "none"
    /\ ppc' = [ppc EXCEPT ![p] = "failed"]
    /\ reqN' = [reqN EXCEPT ![p] = n]
    /\ mem' = [mem EXCEPT ![p] =
                 [pool     |-> IF k > 1 THEN "freed" ELSE "none",
                  threads  |-> IF k > 2 THEN "freed" ELSE "none",
                  jobqueue |-> "none"]]
    /\ UNCHANGED <<thpool_keepalive, proc, dt, threadsN, semVars, queueVars, jobVars,
                   workerVars, submitVars, histVars>>

\* ------------------------------------------------------ semaphore steps

\* sem_post on a semaphore: the value goes up by one.
SemPost(p, name) == [sem EXCEPT ![p][name] = @ + 1]

\* sem_wait on a semaphore, once the value is positive.
SemWait(p, name) == [sem EXCEPT ![p][name] = @ - 1]

\* The semaphore operation is on a semaphore sem_destroy has been called on.
\* POSIX leaves the result undefined: an implementation may carry on as if
\* the semaphore were live or fail with EINVAL, and the model allows both.
Destroyed(p, name) == ~semLive[p][name]

\* ------------------------------------------------------ thpool_add_work

\* The call begins: malloc(sizeof(thpool_job_t)) succeeds and the function
\* and argument are stored in the new job.
add_work_call(s, p, a) ==
    /\ proc = "running"
    /\ spc[s] = "idle"
    /\ ppc[p] = "live"
    /\ jmem' = [jmem EXCEPT ![nextJob] = "live"]
    /\ jarg' = [jarg EXCEPT ![nextJob] = a]
    /\ nextJob' = nextJob + 1
    /\ spc' = [spc EXCEPT ![s] = "s_waitEmpty"]
    /\ spool' = [spool EXCEPT ![s] = p]
    /\ sjob' = [sjob EXCEPT ![s] = nextJob]
    /\ begun' = [begun EXCEPT ![nextJob] = returned]
    /\ jpool' = [jpool EXCEPT ![nextJob] = p]
    /\ UNCHANGED <<thpool_keepalive, proc, poolVars, semVars, queueVars,
                   workerVars, runs, runArg, returned, deqOrder, quiet>>

\* The call begins and malloc returns NULL: exit(1).
add_work_nomem(s, p) ==
    /\ proc = "running"
    /\ spc[s] = "idle"
    /\ ppc[p] = "live"
    /\ proc' = "exited"
    /\ UNCHANGED <<thpool_keepalive, poolVars, semVars, queueVars, jobVars,
                   workerVars, submitVars, histVars>>

\* A submitter that does not wait for a free slot.
add_work_nowait(s) ==
    /\ proc = "running"
    /\ spc[s] = "s_waitEmpty"
    /\ sem' = SemWait(spool[s], "nEmpty")
    /\ spc' = [spc EXCEPT ![s] = "s_lock"]
    /\ UNCHANGED <<thpool_keepalive, proc, poolVars, semLive, queueVars,
                   jobVars, workerVars, spool, sjob, histVars>>

\* sem_wait(&tp_p->nEmpty)
add_work_waitEmpty(s) ==
    /\ proc = "running"
    /\ spc[s] = "s_waitEmpty"
    /\ sem[spool[s]].nEmpty > 0
    /\ sem' = SemWait(spool[s], "nEmpty")
    /\ spc' = [spc EXCEPT ![s] = "s_lock"]
    /\ UNCHANGED <<thpool_keepalive, proc, poolVars, semLive, queueVars,
                   jobVars, workerVars, spool, sjob, histVars>>

\* sem_wait(&tp_p->mutex)
add_work_lock(s) ==
    /\ proc = "running"
    /\ spc[s] = "s_lock"
    /\ sem[spool[s]].mutex > 0
    /\ sem' = SemWait(spool[s], "mutex")
    /\ spc' = [spc EXCEPT ![s] = "s_add"]
    /\ UNCHANGED <<thpool_keepalive, proc, poolVars, semLive, queueVars,
                   jobVars, workerVars, spool, sjob, histVars>>

\* thpool_jobqueue_add(tp_p, newJob)
add_work_enqueue(s) ==
    LET r == jobqueue_add(jobqueue[spool[s]], next, prev, sjob[s])
    IN  /\ proc = "running"
        /\ spc[s] = "s_add"
        /\ jobqueue' = [jobqueue EXCEPT ![spool[s]] = r.q]
        /\ next' = r.nx
        /\ prev' = r.pv
        /\ proc' = IF r.fault THEN "crashed" ELSE proc
        /\ spc' = [spc EXCEPT ![s] = "s_unlock"]
        /\ UNCHANGED <<thpool_keepalive, poolVars, semVars, jobVars,
                       workerVars, spool, sjob, histVars>>

\* sem_post(&tp_p->mutex)
add_work_unlock(s) ==
    /\ proc = "running"
    /\ spc[s] = "s_unlock"
    /\ sem' = SemPost(spool[s], "mutex")
    /\ spc' = [spc EXCEPT ![s] = "s_postStored"]
    /\ UNCHANGED <<thpool_keepalive, proc, poolVars, semLive, queueVars,
                   jobVars, workerVars, spool, sjob, histVars>>

\* A submission that returns without posting nStored.
add_work_postStored_lost(s) ==
    /\ proc = "running"
    /\ spc[s] = "s_postStored"
    /\ returned' = returned \cup {sjob[s]}
    /\ spc' = [spc EXCEPT ![s] = "idle"]
    /\ spool' = [spool EXCEPT ![s] = 0]
    /\ sjob' = [sjob EXCEPT ![s] = NULL]
    /\ UNCHANGED <<thpool_keepalive, proc, poolVars, semVars, queueVars,
                   jobVars, workerVars, runs, runArg, begun, deqOrder, quiet,
                   jpool>>

\* sem_post(&tp_p->nStored); return 0;
add_work_postStored(s) ==
    /\ proc = "running"
    /\ spc[s] = "s_postStored"
    /\ sem' = SemPost(spool[s], "nStored")
    /\ returned' = returned \cup {sjob[s]}
    /\ spc' = [spc EXCEPT ![s] = "idle"]
    /\ spool' = [spool EXCEPT ![s] = 0]
    /\ sjob' = [sjob EXCEPT ![s] = NULL]
    /\ UNCHANGED <<thpool_keepalive, proc, poolVars, semLive, queueVars,
                   jobVars, workerVars, runs, runArg, begun, deqOrder, quiet,
                   jpool>>

\* ----------------------------------------------------- thpool_thread_do

\* while(thpool_keepalive)
thread_do_loop(p, t) ==
    /\ proc = "running"
    /\ wpc[p][t] = "w_loop"
    /\ wpc' = [wpc EXCEPT ![p][t] =
                 IF thpool_keepalive # 0 THEN "w_wait" ELSE "done"]
    /\ UNCHANGED <<thpool_keepalive, proc, poolVars, semVars, queueVars,
                   jobVars, wjob, warg, submitVars, histVars>>

\* A worker that goes on without waiting for a stored job.
thread_do_wait_nowait(p, t) ==
    /\ proc = "running"
    /\ wpc[p][t] = "w_wait"
    /\ wpc' = [wpc EXCEPT ![p][t] = "w_check"]
    /\ UNCHANGED <<thpool_keepalive, proc, poolVars, semVars, queueVars,
                   jobVars, wjob, warg, submitVars, histVars>>

\* sem_wait(&tp_p->nStored) returns 0
thread_do_wait(p, t) ==
    /\ proc = "running"
    /\ wpc[p][t] = "w_wait"
    /\ sem[p].nStored > 0
    /\ sem' = SemWait(p, "nStored")
    /\ wpc' = [wpc EXCEPT ![p][t] = "w_check"]
    /\ UNCHANGED <<thpool_keepalive, proc, poolVars, semLive, queueVars,
                   jobVars, wjob, warg, submitVars, histVars>>

\* sem_wait(&tp_p->nStored) fails on the destroyed semaphore: exit(1)
thread_do_wait_fail(p, t) ==
    /\ proc = "running"
    /\ wpc[p][t] = "w_wait"
    /\ Destroyed(p, "nStored")
    /\ proc' = "exited"
    /\ UNCHANGED <<thpool_keepalive, poolVars, semVars, queueVars, jobVars,
                   workerVars, submitVars, histVars>>

\* A worker that goes for the queue without re-checking thpool_keepalive.
thread_do_check_skip(p, t) ==
    /\ proc = "running"
    /\ wpc[p][t] = "w_check"
    /\ wpc' = [wpc EXCEPT ![p][t] = "w_lock"]
    /\ UNCHANGED <<thpool_keepalive, proc, poolVars, semVars, queueVars,
                   jobVars, wjob, warg, submitVars, histVars>>

\* if (thpool_keepalive)
thread_do_check(p, t) ==
    /\ proc = "running"
    /\ wpc[p][t] = "w_check"
    /\ wpc' = [wpc EXCEPT ![p][t] =
                 IF thpool_keepalive # 0 THEN "w_lock" ELSE "w_loop"]
    /\ UNCHANGED <<thpool_keepalive, proc, poolVars, semVars, queueVars,
                   jobVars, wjob, warg, submitVars, histVars>>

\* A worker that enters the critical section without taking the lock.
thread_do_lock_nowait(p, t) ==
    /\ proc = "running"
    /\ wpc[p][t] = "w_lock"
    /\ wpc' = [wpc EXCEPT ![p][t] = "w_peek"]
    /\ UNCHANGED <<thpool_keepalive, proc, poolVars, semVars, queueVars,
                   jobVars, wjob, warg, submitVars, histVars>>

\* sem_wait(&tp_p->mutex): returns with the lock, or (return value ignored)
\* fails on the destroyed semaphore and returns without it.
thread_do_lock(p, t) ==
    /\ proc = "running"
    /\ wpc[p][t] = "w_lock"
    /\ \/ /\ sem[p].mutex > 0
          /\ sem' = SemWait(p, "mutex")
       \/ /\ Destroyed(p, "mutex")
          /\ sem' = sem
    /\ wpc' = [wpc EXCEPT ![p][t] = "w_peek"]
    /\ UNCHANGED <<thpool_keepalive, proc, poolVars, semLive, queueVars,
                   jobVars, wjob, warg, submitVars, histVars>>

\* job_p = thpool_jobqueue_peek(tp_p); func_buff=job_p->function;
\* arg_buff=job_p->arg;  (a NULL job_p is dereferenced: the process faults)
thread_do_peek(p, t) ==
    LET job_p == jobqueue_peek(jobqueue[p])
    IN  /\ proc = "running"
        /\ wpc[p][t] = "w_peek"
        /\ IF job_p = NULL
           THEN /\ proc' = "crashed"
                /\ UNCHANGED <<wjob, warg>>
           ELSE /\ proc' = proc
                /\ wjob' = [wjob EXCEPT ![p][t] = job_p]
                /\ warg' = [warg EXCEPT ![p][t] = jarg[job_p]]
        /\ wpc' = [wpc EXCEPT ![p][t] = "w_remove"]
        /\ UNCHANGED <<thpool_keepalive, poolVars, semVars, queueVars,
                       jobVars, submitVars, histVars>>

\* thpool_jobqueue_removelast(tp_p)
thread_do_remove(p, t) ==
    LET r == jobqueue_removelast(jobqueue[p], next, prev)
    IN  /\ proc = "running"
        /\ wpc[p][t] = "w_remove"
        /\ jobqueue' = [jobqueue EXCEPT ![p] = r.q]
        /\ next' = r.nx
        /\ proc' = IF r.fault THEN "crashed" ELSE proc
        /\ deqOrder' = IF r.rc = 0 /\ ~r.fault
                       THEN Append(deqOrder, r.out)
                       ELSE deqOrder
        /\ wpc' = [wpc EXCEPT ![p][t] = "w_unlock"]
        /\ UNCHANGED <<thpool_keepalive, poolVars, semVars, prev, jobVars,
                       wjob, warg, submitVars, runs, runArg, begun, returned,
                       quiet, jpool>>

\* A worker that keeps the lock while it goes on to execute the job.
thread_do_unlock_skip(p, t) ==
    /\ proc = "running"
    /\ wpc[p][t] = "w_unlock"
    /\ wpc' = [wpc EXCEPT ![p][t] = "w_postEmpty"]
    /\ UNCHANGED <<thpool_keepalive, proc, poolVars, semVars, queueVars,
                   jobVars, wjob, warg, submitVars, histVars>>

\* sem_post(&tp_p->mutex)
thread_do_unlock(p, t) ==
    /\ proc = "running"
    /\ wpc[p][t] = "w_unlock"
    /\ \/ sem' = SemPost(p, "mutex")
       \/ /\ Destroyed(p, "mutex")
          /\ sem' = sem
    /\ wpc' = [wpc EXCEPT ![p][t] = "w_postEmpty"]
    /\ UNCHANGED <<thpool_keepalive, proc, poolVars, semLive, queueVars,
                   jobVars, wjob, warg, submitVars, histVars>>

\* A worker that does not give the slot back.
thread_do_keepSlot(p, t) ==
    /\ proc = "running"
    /\ wpc[p][t] = "w_postEmpty"
    /\ wpc' = [wpc EXCEPT ![p][t] = "w_run"]
    /\ UNCHANGED <<thpool_keepalive, proc, poolVars, semVars, queueVars,
                   jobVars, wjob, warg, submitVars, histVars>>

\* sem_post(&tp_p->nEmpty)
thread_do_postEmpty(p, t) ==
    /\ proc = "running"
    /\ wpc[p][t] = "w_postEmpty"
    /\ \/ sem' = SemPost(p, "nEmpty")
       \/ /\ Destroyed(p, "nEmpty")
          /\ sem' = sem
    /\ wpc' = [wpc EXCEPT ![p][t] = "w_run"]
    /\ UNCHANGED <<thpool_keepalive, proc, poolVars, semLive, queueVars,
                   jobVars, wjob, warg, submitVars, histVars>>

\* func_buff(arg_buff): the job's function runs to its end
thread_do_run(p, t) ==
    /\ proc = "running"
    /\ wpc[p][t] = "w_run"
    /\ runs' = [runs EXCEPT ![wjob[p][t]] = @ + 1]
    /\ runArg' = [runArg EXCEPT ![wjob[p][t]] = warg[p][t]]
    /\ wpc' = [wpc EXCEPT ![p][t] = "w_free"]
    /\ UNCHANGED <<thpool_keepalive, proc, poolVars, semVars, queueVars,
                   jobVars, wjob, warg, submitVars, begun, returned, deqOrder,
                   quiet, jpool>>

\* free(job_p): freeing a block a second time is undefined; the allocator
\* may abort the process or carry on.
thread_do_free(p, t) ==
    /\ proc = "running"
    /\ wpc[p][t] = "w_free"
    /\ jmem' = [jmem EXCEPT ![wjob[p][t]] = FreeBlock(@)]
    /\ \/ proc' = proc
       \/ /\ jmem[wjob[p][t]] # "live"
          /\ proc' = "crashed"
    /\ wpc' = [wpc EXCEPT ![p][t] = "w_loop"]
    /\ wjob' = [wjob EXCEPT ![p][t] = NULL]
    /\ warg' = [warg EXCEPT ![p][t] = 0]
    /\ UNCHANGED <<thpool_keepalive, poolVars, semVars, queueVars, jarg,
                   nextJob, submitVars, histVars>>

\* -------------------------------------------------------- thpool_destroy

\* The submitters with a thpool_add_work call on pool p in progress.
Submitting(p) == {s \in Submitters : spc[s] # "idle" /\ spool[s] = p}

\* thpool_keepalive=0;
destroy_begin(p) ==
    /\ proc = "running"
    /\ ppc[p] = "live"
    /\ Submitting(p) = {}
    /\ thpool_keepalive' = 0
    /\ ppc' = [ppc EXCEPT ![p] = "d_post"]
    /\ dt' = [dt EXCEPT ![p] = 0]
    /\ quiet' = [q \in Pools |-> FALSE]
    /\ UNCHANGED <<proc, reqN, threadsN, mem, semVars, queueVars, jobVars,
                   workerVars, submitVars, runs, runArg, begun, returned,
                   deqOrder, jpool>>

\* for (t=0; t<threadsN; t++) sem_post(&tp_p->nStored): one iteration
destroy_post(p) ==
    /\ proc = "running"
    /\ ppc[p] = "d_post"
    /\ sem' = SemPost(p, "nStored")
    /\ dt' = [dt EXCEPT ![p] = IF dt[p] + 1 < threadsN[p] THEN dt[p] + 1 ELSE 0]
    /\ ppc' = [ppc EXCEPT ![p] =
                 IF dt[p] + 1 < threadsN[p] THEN "d_post" ELSE "d_sem_mutex"]
    /\ UNCHANGED <<thpool_keepalive, proc, reqN, threadsN, mem, semLive,
                   queueVars, jobVars, workerVars, submitVars, histVars>>

\* sem_destroy(&tp_p->mutex); sem_destroy(&tp_p->nEmpty);
\* sem_destroy(&tp_p->nStored): one call
destroy_sem(p) ==
    LET name == CASE ppc[p] = "d_sem_mutex" -> "mutex"
                  [] ppc[p] = "d_sem_nEmpty" -> "nEmpty"
                  [] OTHER -> "nStored"
    IN  /\ proc = "running"
        /\ ppc[p] \in {"d_sem_mutex", "d_sem_nEmpty", "d_sem_nStored"}
        /\ semLive' = [semLive EXCEPT ![p][name] = FALSE]
        /\ ppc' = [ppc EXCEPT ![p] =
                     CASE name = "mutex" -> "d_sem_nEmpty"
                       [] name = "nEmpty" -> "d_sem_nStored"
                       [] OTHER -> "d_join"]
        /\ UNCHANGED <<thpool_keepalive, proc, dt, reqN, threadsN, mem, sem,
                       queueVars, jobVars, workerVars, submitVars, histVars>>

\* A join that does not wait for the thread.
destroy_join_nowait(p) ==
    /\ proc = "running"
    /\ ppc[p] = "d_join"
    /\ dt' = [dt EXCEPT ![p] = IF dt[p] + 1 < threadsN[p] THEN dt[p] + 1 ELSE 0]
    /\ ppc' = [ppc EXCEPT ![p] =
                 IF dt[p] + 1 < threadsN[p] THEN "d_join" ELSE "d_empty"]
    /\ UNCHANGED <<thpool_keepalive, proc, reqN, threadsN, mem, semVars,
                   queueVars, jobVars, workerVars, submitVars, histVars>>

\* for (t=0; t<threadsN; t++) pthread_join(tp_p->threads[t], NULL): one
\* iteration, which returns once thread t has left thpool_thread_do.
destroy_join(p) ==
    /\ proc = "running"
    /\ ppc[p] = "d_join"
    /\ wpc[p][dt[p] + 1] = "done"
    /\ dt' = [dt EXCEPT ![p] = IF dt[p] + 1 < threadsN[p] THEN dt[p] + 1 ELSE 0]
    /\ ppc' = [ppc EXCEPT ![p] =
                 IF dt[p] + 1 < threadsN[p] THEN "d_join" ELSE "d_empty"]
    /\ UNCHANGED <<thpool_keepalive, proc, reqN, threadsN, mem, semVars,
                   queueVars, jobVars, workerVars, submitVars, histVars>>

\* thpool_jobqueue_empty(tp_p)
destroy_empty(p) ==
    LET r == jobqueue_empty(jobqueue[p], prev, jmem)
    IN  /\ proc = "running"
        /\ ppc[p] = "d_empty"
        /\ proc' = IF r.fault THEN "crashed" ELSE proc
        /\ jmem' = r.jm
        /\ jobqueue' = [jobqueue EXCEPT ![p] = r.q]
        /\ ppc' = [ppc EXCEPT ![p] = "d_free"]
        /\ UNCHANGED <<thpool_keepalive, dt, reqN, threadsN, mem, semVars,
                       next, prev, jarg, nextJob, workerVars, submitVars,
                       histVars>>

\* free(tp_p->threads); free(tp_p->jobqueue); free(tp_p); return
destroy_free(p) ==
    /\ proc = "running"
    /\ ppc[p] = "d_free"
    /\ mem' = [mem EXCEPT ![p] = [m \in MemNames |-> FreeBlock(mem[p][m])]]
    /\ ppc' = [ppc EXCEPT ![p] = "returned"]
    /\ UNCHANGED <<thpool_keepalive, proc, dt, reqN, threadsN, semVars,
                   queueVars, jobVars, workerVars, submitVars, histVars>>

\* ------------------------------------------------------- specifications

\* The steps of the threads of a process that uses the pools in P, calls
\* thpool_init with an argument in N, and submits at most J jobs from the
\* submitter threads in S.
Steps(P, N, S, J) ==
    \/ \E p \in P, n \in N : thpool_init(p, n)
    \/ \E p \in P, n \in N, k \in 1..3 : thpool_init_nomem(p, n, k)
    \/ \E s \in S, p \in P, a \in Args : nextJob <= J /\ add_work_call(s, p, a)
    \/ \E s \in S, p \in P : nextJob <= J /\ add_work_nomem(s, p)
    \/ \E s \in S : add_work_waitEmpty(s)
    \/ \E s \in S : add_work_lock(s)
    \/ \E s \in S : add_work_enqueue(s)
    \/ \E s \in S : add_work_unlock(s)
    \/ \E s \in S : add_work_postStored(s)
    \/ \E p \in P, t \in Threads : thread_do_loop(p, t)
    \/ \E p \in P, t \in Threads : thread_do_wait(p, t)
    \/ \E p \in P, t \in Threads : thread_do_wait_fail(p, t)
    \/ \E p \in P, t \in Threads : thread_do_check(p, t)
    \/ \E p \in P, t \in Threads : thread_do_lock(p, t)
    \/ \E p \in P, t \in Threads : thread_do_peek(p, t)
    \/ \E p \in P, t \in Threads : thread_do_remove(p, t)
    \/ \E p \in P, t \in Threads : thread_do_unlock(p, t)
    \/ \E p \in P, t \in Threads : thread_do_postEmpty(p, t)
    \/ \E p \in P, t \in Threads : thread_do_run(p, t)
    \/ \E p \in P, t \in Threads : thread_do_free(p, t)
    \/ \E p \in P : destroy_begin(p)
    \/ \E p \in P : destroy_post(p)
    \/ \E p \in P : destroy_sem(p)
    \/ \E p \in P : destroy_join(p)
    \/ \E p \in P : destroy_empty(p)
    \/ \E p \in P : destroy_free(p)

\* One pool in the process.
Next == Steps({1}, ThreadArgs, Submitters, MaxJobs)

Spec == Init /\ [][Next]_vars

\* Several pools in the process, each created and destroyed by a thread of
\* its own; one worker per pool and PoolsJobs jobs in all.
NextPools == Steps(Pools, 0..1, {1}, PoolsJobs)

SpecPools == Init /\ [][NextPools]_vars

\* The steps of one worker thread.
WorkerStep(p, t) ==
    \/ thread_do_loop(p, t)
    \/ thread_do_wait(p, t)
    \/ thread_do_wait_fail(p, t)
    \/ thread_do_check(p, t)
    \/ thread_do_lock(p, t)
    \/ thread_do_peek(p, t)
    \/ thread_do_remove(p, t)
    \/ thread_do_unlock(p, t)
    \/ thread_do_postEmpty(p, t)
    \/ thread_do_run(p, t)
    \/ thread_do_free(p, t)

\* The steps of a thpool_add_work call that has begun.
SubmitterStep(s) ==
    \/ add_work_waitEmpty(s)
    \/ add_work_lock(s)
    \/ add_work_enqueue(s)
    \/ add_work_unlock(s)
    \/ add_work_postStored(s)

\* The steps of a thpool_destroy call that has begun.
DestroyStep(p) ==
    \/ destroy_post(p)
    \/ destroy_sem(p)
    \/ destroy_join(p)
    \/ destroy_empty(p)
    \/ destroy_free(p)

\* Fair scheduling: a thread that can take a step is not held back for
\* ever. Whether a pool is created, a job submitted or a pool destroyed is
\* up to the callers.
Fairness ==
    /\ \A t \in Threads : WF_vars(WorkerStep(1, t))
    /\ \A s \in Submitters : WF_vars(SubmitterStep(s))
    /\ WF_vars(DestroyStep(1))

\* One pool, fairly scheduled.
FairSpec == Spec /\ Fairness

\* One pool that is never destroyed, in a process where malloc does not
\* fail: neither thpool_destroy nor the exit(1) paths are taken.
NextLive ==
    \/ \E n \in ThreadArgs : thpool_init(1, n)
    \/ \E s \in Submitters, a \in Args :
          nextJob <= MaxJobs /\ add_work_call(s, 1, a)
    \/ \E s \in Submitters : SubmitterStep(s)
    \/ \E t \in Threads : thread_do_loop(1, t)
    \/ \E t \in Threads : thread_do_wait(1, t)
    \/ \E t \in Threads : thread_do_check(1, t)
    \/ \E t \in Threads : thread_do_lock(1, t)
    \/ \E t \in Threads : thread_do_peek(1, t)
    \/ \E t \in Threads : thread_do_remove(1, t)
    \/ \E t \in Threads : thread_do_unlock(1, t)
    \/ \E t \in Threads : thread_do_postEmpty(1, t)
    \/ \E t \in Threads : thread_do_run(1, t)
    \/ \E t \in Threads : thread_do_free(1, t)

LiveSpec == Init /\ [][NextLive]_vars /\ Fairness

\* ----------------------------------------------------------- the claims

\* The jobs submitted to pool p.
JobsOf(p) == {j \in Jobs : jpool[j] = p}

\* C1: once thpool_destroy has returned, every job whose thpool_add_work
\* call returned has been invoked exactly once, with its submitted argument.
C1_EachJobRunsExactlyOnce ==
    \A p \in Pools : ppc[p] = "returned" =>
        \A j \in JobsOf(p) \cap returned :
            runs[j] = 1 /\ runArg[j] = jarg[j]

\* C2: FIFO delivery: no job leaves the queue twice, and if job A's
\* thpool_add_work call returned before job B's began, B does not leave the
\* queue of their pool before A.
C2_Fifo ==
    \A i, k \in 1..Len(deqOrder) :
        (i < k /\ jpool[deqOrder[i]] = jpool[deqOrder[k]]) =>
            /\ deqOrder[i] # deqOrder[k]
            /\ deqOrder[k] \notin begun[deqOrder[i]]

\* C2 happens: A was submitted before B, A left the queue while B was queued
\* behind it (A's prev still names B), and then B left.
C2_Witness ==
    /\ Len(deqOrder) = 2
    /\ deqOrder[1] \in begun[deqOrder[2]]
    /\ prev[deqOrder[1]] = deqOrder[2]

\* C3: the number of queued jobs never exceeds the pool's thread count.
C3_QueueBounded ==
    \A p \in Pools : jobqueue[p].jobsN <= threadsN[p]

\* C3 happens: the queue is full and a submitter waits for a slot.
C3_Witness ==
    \E p \in Pools, s \in Submitters :
        /\ ppc[p] = "live"
        /\ jobqueue[p].jobsN = threadsN[p]
        /\ spc[s] = "s_waitEmpty" /\ spool[s] = p

\* A submitter gets past sem_wait(&tp_p->nEmpty) in this step.
Admitted(s) == spc[s] = "s_waitEmpty" /\ spc'[s] = "s_lock"

\* The jobs of pool p that are past the wait on slots-empty and whose
\* function has not run to its end.
Uncompleted(p) ==
    {j \in JobsOf(p) :
        /\ runs[j] = 0
        /\ ~\E s \in Submitters : sjob[s] = j /\ spc[s] = "s_waitEmpty"}

\* The slots of pool p in use: jobs queued, jobs of submitters between the
\* wait on slots-empty and the enqueue, and jobs a worker has dequeued
\* without having signalled slots-empty yet.
SlotsHeld(p) ==
    jobqueue[p].jobsN
    + Cardinality({s \in Submitters :
                     spool[s] = p /\ spc[s] \in {"s_lock", "s_add"}})
    + Cardinality({t \in Threads : wpc[p][t] \in {"w_unlock", "w_postEmpty"}})

\* C4 as stated: a submitter gets past its wait on slots-empty only while
\* fewer than N submitted jobs are uncompleted.
C4_BlocksAtNUncompleted ==
    [][\A s \in Submitters :
         Admitted(s) =>
            Cardinality(Uncompleted(spool[s])) < threadsN[spool[s]]]_vars

\* C4 as amended: a submitter gets past its wait on slots-empty only while
\* fewer than N slots are in use, where a job gives its slot back when the
\* worker that dequeued it signals slots-empty, before the job runs.
C4_BlocksAtNSlots ==
    [][\A s \in Submitters :
         Admitted(s) => SlotsHeld(spool[s]) < threadsN[spool[s]]]_vars

\* C4 happens: all N slots are in use and a further submitter is blocked.
C4_Witness ==
    \E s \in Submitters :
        /\ spc[s] = "s_waitEmpty"
        /\ SlotsHeld(spool[s]) = threadsN[spool[s]]
        /\ sem[spool[s]].nEmpty = 0
        /\ \E t \in Threads : wpc[spool[s]][t] = "w_postEmpty"

\* C5: after thpool_destroy has returned, every worker of the pool has left
\* thpool_thread_do, so none starts or is still running a job.
C5_ShutdownComplete ==
    \A p \in Pools : ppc[p] = "returned" =>
        \A t \in 1..threadsN[p] : wpc[p][t] = "done"

\* C5 happens: a pool of two workers that ran jobs has been destroyed.
C5_Witness ==
    \E p \in Pools :
        /\ ppc[p] = "returned"
        /\ threadsN[p] = 2
        /\ \E j \in JobsOf(p) : runs[j] = 1

\* C6: under fair scheduling a thpool_destroy call that has begun returns.
C6_DestroyReturns ==
    \A p \in Pools : (ppc[p] = "d_post") ~> (ppc[p] = "returned")

Max(a, b) == IF a >= b THEN a ELSE b

\* The workers of pool p that are in the consume loop.
LiveWorkers(p) == {t \in Threads : wpc[p][t] \notin {"none", "done"}}

\* C7: a pool that thpool_init has returned, with no thpool_destroy call
\* begun since, has max(n, 1) workers, all in the consume loop.
C7_InitYieldsWorkers ==
    \A p \in Pools : (ppc[p] = "live" /\ quiet[p]) =>
        /\ threadsN[p] = Max(reqN[p], 1)
        /\ Cardinality(LiveWorkers(p)) = Max(reqN[p], 1)

\* C8: once thpool_destroy has returned, every job whose thpool_add_work
\* call returned, and each of the pool's three blocks, was freed exactly once.
C8_ReleasedExactlyOnce ==
    \A p \in Pools : ppc[p] = "returned" =>
        /\ \A j \in JobsOf(p) \cap returned : jmem[j] = "freed"
        /\ \A m \in MemNames : mem[p][m] = "freed"

C10_FixedWorkerCount ==
    \A p \in Pools : ppc[p] = "live" =>
        Cardinality(LiveWorkers(p)) = threadsN[p]

\* C11: no worker step operates on a semaphore after sem_destroy has been
\* called on it: a worker returns from sem_wait(nStored), from
\* sem_wait(mutex), from sem_post(mutex) or from sem_post(nEmpty) only while
\* that semaphore is still live.
C11_NoUseAfterDestroy ==
    [][\A p \in Pools : \A t \in Threads :
          /\ (wpc[p][t] = "w_wait" /\ wpc'[p][t] = "w_check")
                => semLive[p]["nStored"]
          /\ (wpc[p][t] = "w_lock" /\ wpc'[p][t] = "w_peek")
                => semLive[p]["mutex"]
          /\ (wpc[p][t] = "w_unlock" /\ wpc'[p][t] = "w_postEmpty")
                => semLive[p]["mutex"]
          /\ (wpc[p][t] = "w_postEmpty" /\ wpc'[p][t] = "w_run")
                => semLive[p]["nEmpty"]]_vars

\* C12: a worker that has passed the keepalive re-check and is about to call
\* thpool_jobqueue_peek or thpool_jobqueue_removelast finds at least one job
\* in the queue: peek does not return NULL and removelast does not return -1.
C12_NoUnderflow ==
    \A p \in Pools : \A t \in Threads :
        wpc[p][t] \in {"w_peek", "w_remove"} =>
            /\ jobqueue[p].jobsN >= 1
            /\ jobqueue_peek(jobqueue[p]) # NULL

\* C12 happens: thpool_destroy has made its forced posts, one of them is
\* still unconsumed, and a worker that took a real post is dequeuing.
C12_Witness ==
    \E t \in Threads :
        /\ wpc[1][t] = "w_remove"
        /\ wjob[1][t] # NULL
        /\ ppc[1] = "d_sem_mutex"
        /\ sem[1].nStored >= 1

\* The threads between their sem_wait(mutex) and their sem_post(mutex) on
\* pool p: submitters as <<"s", s>>, workers as <<"w", t>>.
InCritical(p) ==
    {<<"s", s>> : s \in {x \in Submitters :
                           spool[x] = p /\ spc[x] \in {"s_add", "s_unlock"}}}
    \cup {<<"w", t>> : t \in {x \in Threads :
                           wpc[p][x] \in {"w_peek", "w_remove", "w_unlock"}}}

\* C13: before shutdown, and during it until sem_destroy(mutex), at most one
\* thread, submitter or worker, is inside the queue's critical section, and
\* the value of mutex is 0 or 1: exactly 0 while a thread is inside and 1
\* while none is.
C13_MutualExclusion ==
    \A p \in Pools : semLive[p]["mutex"] =>
        /\ Cardinality(InCritical(p)) <= 1
        /\ sem[p].mutex \in {0, 1}
        /\ sem[p].mutex = 1 - Cardinality(InCritical(p))

\* C13 happens: a submitter is inside adding a job while a worker that has a
\* stored job to take is held at sem_wait(mutex).
C13_Witness ==
    /\ ppc[1] = "live"
    /\ sem[1].mutex = 0
    /\ \E s \in Submitters : spc[s] = "s_add"
    /\ \E t \in Threads : wpc[1][t] = "w_lock"

\* C14: a worker executing a job is outside the critical section: its job
\* has left the queue, its slot has been given back to nEmpty, and the lock
\* is free unless some other thread is inside, so submitters and other
\* workers can take it while jobs execute.
C14_RunsOutsideLock ==
    \A p \in Pools : \A t \in Threads :
        wpc[p][t] = "w_run" =>
            /\ \E i \in 1..Len(deqOrder) : deqOrder[i] = wjob[p][t]
            /\ (semLive[p]["mutex"] /\ InCritical(p) = {})
                  => sem[p].mutex = 1
            /\ semLive[p]["nEmpty"]
                  => sem[p].nEmpty + SlotsHeld(p) = threadsN[p]

\* C14 happens: while one worker executes a job a submitter has taken the
\* lock and is adding the next job.
C14_Witness ==
    /\ ppc[1] = "live"
    /\ \E t \in Threads : wpc[1][t] = "w_run"
    /\ \E s \in Submitters : spc[s] = "s_add"
    /\ sem[1].mutex = 0

\* The number of jobs reached from job j by following the link f (next or
\* prev) up to NULL; a chain that does not end within MaxJobs + 1 links
\* counts as longer than any queue.
RECURSIVE ChainLen(_, _, _)
ChainLen(j, f, fuel) ==
    IF j = NULL THEN 0
    ELSE IF fuel = 0 THEN MaxJobs + 1
    ELSE 1 + ChainLen(f[j], f, fuel - 1)

QueueWellFormed(q, nx, pv) ==
    /\ q.jobsN >= 0
    /\ ChainLen(q.head, nx, MaxJobs + 1) = q.jobsN
    /\ ChainLen(q.tail, pv, MaxJobs + 1) = q.jobsN
    /\ (q.head = NULL /\ q.tail = NULL) <=> (q.jobsN = 0)
    /\ (q.head # NULL /\ q.head = q.tail) <=> (q.jobsN = 1)

\* C15: between any two queue operations, in particular whenever the lock is
\* free, jobsN is non-negative and is the number of jobs reached from head
\* along next and from tail along prev; head and tail are both NULL exactly
\* when jobsN = 0 and are the same job exactly when jobsN = 1.
C15_QueueStructure ==
    \A p \in Pools : QueueWellFormed(jobqueue[p], next, prev)

\* C15 happens: two jobs were added, the older one was removed, the lock is
\* free and the queue holds the one job the removed job's prev pointed to.
C15_Witness ==
    /\ ppc[1] = "live"
    /\ sem[1].mutex = 1
    /\ Len(deqOrder) = 1
    /\ jobqueue[1].jobsN = 1
    /\ prev[deqOrder[1]] = jobqueue[1].tail

\* C16: once thpool_keepalive is 0, a worker that has returned from
\* sem_wait(nStored) goes from the re-check back to the loop test and from
\* there out of thpool_thread_do, and neither step touches a semaphore, the
\* queue or a job: it takes no lock, peeks and dequeues nothing, posts
\* nothing and executes nothing.
C16_ShutdownRecheck ==
    [][\A p \in Pools : \A t \in Threads :
          /\ (thpool_keepalive = 0 /\ wpc[p][t] = "w_check"
                /\ wpc'[p][t] # "w_check")
                => /\ wpc'[p][t] = "w_loop"
                   /\ UNCHANGED <<semVars, queueVars, jobVars, wjob, warg,
                                  runs, runArg, deqOrder>>
          /\ (thpool_keepalive = 0 /\ wpc[p][t] = "w_loop"
                /\ wpc'[p][t] # "w_loop")
                => /\ wpc'[p][t] = "done"
                   /\ UNCHANGED <<semVars, queueVars, jobVars, wjob, warg,
                                  runs, runArg, deqOrder>>]_vars

\* C16 happens: thpool_destroy has set thpool_keepalive = 0 and made no
\* forced post yet; a worker that had consumed the real post of a queued job
\* has left without taking it, so nStored counts fewer than the queued jobs
\* and no worker is on the way to the queue.
C16_Witness ==
    /\ thpool_keepalive = 0
    /\ ppc[1] = "d_post"
    /\ dt[1] = 0
    /\ jobqueue[1].jobsN >= 1
    /\ sem[1].nStored < jobqueue[1].jobsN
    /\ \E t \in Threads : wpc[1][t] = "done"
    /\ \A t \in Threads :
          wpc[1][t] \notin {"w_check", "w_lock", "w_peek", "w_remove"}

\* The jobs reached from job j by following the link f up to NULL.
RECURSIVE ChainSet(_, _, _)
ChainSet(j, f, fuel) ==
    IF j = NULL \/ fuel = 0 THEN {}
    ELSE {j} \cup ChainSet(f[j], f, fuel - 1)

Queued(p) == ChainSet(jobqueue[p].head, next, MaxJobs + 1)

\* C17: applied to the queue of any reachable state, thpool_jobqueue_empty
\* frees each job still queued exactly once and no other block, and leaves
\* head = tail = NULL and jobsN = 0; applied to that result again, or to an
\* empty queue, it changes nothing. The drain step of thpool_destroy does
\* just this and executes no job.
C17_DrainLeavesEmpty ==
    /\ [](\A p \in Pools :
            LET r == jobqueue_empty(jobqueue[p], prev, jmem)
                again == jobqueue_empty(r.q, prev, r.jm)
            IN  /\ ~r.fault
                /\ r.q = EmptyQueue
                /\ r.jm = [j \in Jobs |->
                             IF j \in Queued(p) THEN "freed" ELSE jmem[j]]
                /\ again = r
                /\ jobqueue[p] = EmptyQueue => r.jm = jmem)
    /\ [][\A p \in Pools :
            (ppc[p] = "d_empty" /\ ppc'[p] = "d_free") =>
                /\ proc' = proc
                /\ jobqueue'[p] = EmptyQueue
                /\ jmem' = [j \in Jobs |->
                              IF j \in Queued(p) THEN "freed" ELSE jmem[j]]
                /\ runs' = runs]_vars

\* C17 happens: thpool_destroy has drained a queue that still held a job, and
\* that job is freed without ever having been executed.
C17_Witness ==
    /\ proc = "running"
    /\ ppc[1] = "d_free"
    /\ jobqueue[1] = EmptyQueue
    /\ \E j \in JobsOf(1) : jmem[j] = "freed" /\ runs[j] = 0

\* C18: a thpool_init that returned NULL because one of its three
\* allocations failed has freed every block it had allocated, has initialised
\* no semaphore and has started no worker; a pool that was handed out had all
\* three allocations succeed.
C18_InitFailureClean ==
    \A p \in Pools :
        /\ ppc[p] = "failed" =>
              /\ \A m \in MemNames : mem[p][m] \in {"none", "freed"}
              /\ mem[p]["threads"] = "freed" => mem[p]["pool"] = "freed"
              /\ \A s \in SemNames : ~semLive[p][s] /\ sem[p][s] = 0
              /\ \A t \in Threads : wpc[p][t] = "none"
        /\ ppc[p] = "live" => \A m \in MemNames : mem[p][m] = "live"
        /\ ppc[p] \notin {"none", "failed"} =>
              \A m \in MemNames : mem[p][m] # "none"

\* C18 happens: the third allocation, the job queue, failed after the pool
\* and the thread ids had been allocated, and both were freed.
C18_Witness ==
    /\ ppc[1] = "failed"
    /\ mem[1]["pool"] = "freed"
    /\ mem[1]["threads"] = "freed"
    /\ mem[1]["jobqueue"] = "none"

\* The workers of pool p past their sem_wait(nStored) that have not dequeued.
TakingJob(p) ==
    {t \in Threads : wpc[p][t] \in {"w_check", "w_lock", "w_peek", "w_remove"}}

\* The submitters to pool p that have enqueued and not yet posted nStored.
Announcing(p) ==
    {s \in Submitters : spool[s] = p /\ spc[s] \in {"s_unlock", "s_postStored"}}

\* C19: while no thpool_destroy has begun, every live pool satisfies
\* nEmpty + jobsN + (submitters past the wait on nEmpty, not yet enqueued)
\* + (workers that dequeued, not yet posted nEmpty) = threadsN, and
\* nStored + (workers past the wait on nStored, not yet dequeued)
\* + (submitters that enqueued, not yet posted nStored) = jobsN.
C19_SemaphoreAccounting ==
    \A p \in Pools :
        (ppc[p] = "live" /\ \A q \in Pools : ppc[q] \in {"none", "failed", "live"})
        => /\ sem[p].nEmpty + SlotsHeld(p) = threadsN[p]
           /\ sem[p].nStored + Cardinality(TakingJob(p))
                + Cardinality(Announcing(p)) = jobqueue[p].jobsN

\* C19 happens: with both slots of a two-worker pool taken, a worker is past
\* its wait on nStored and has not dequeued while a submitter has enqueued
\* and not yet posted nStored.
C19_Witness ==
    /\ ppc[1] = "live"
    /\ threadsN[1] = 2
    /\ jobqueue[1].jobsN = 2
    /\ sem[1].nEmpty = 0
    /\ TakingJob(1) # {}
    /\ Announcing(1) # {}

====
